---------------------------- MODULE Spec2Model ----------------------------
(***************************************************************************)
(* Bring-up of the persistent storage silo in the management process:      *)
(* bin/varnishd/storage/mgt_storage_persistent.c.                          *)
(*                                                                         *)
(* smp_mgt_init() is modelled statement group by statement group (one      *)
(* action per group, in program order, tracked by pc), smp_metrics() as    *)
(* three actions so that every iteration of its halving loop is a step.    *)
(*                                                                         *)
(* Numbers: the C code computes in uint64_t (lengths) and unsigned         *)
(* (segment counts).  All inputs drawn here are far below 2^31, and no     *)
(* intermediate value of smp_metrics() exceeds ten times its inputs, so    *)
(* no value wraps and Integer arithmetic coincides with the C arithmetic.  *)
(***************************************************************************)
EXTENDS Integers, Sequences, FiniteSets

VARIABLES
    pc,            \* position in smp_mgt_init / smp_metrics
    platform,      \* which #ifdef branches the build contains
    ac,            \* argument count
    i,             \* the local "int i"
    mediasize,     \* sc->mediasize, in granularity units
    filelen,       \* length of the backing file, in granularity units
    sgn,           \* the local "struct smp_sign sgn" read from the file
    target,        \* the local "void *target"
    mmap_flags,    \* the local "int mmap_flags", as a set of flag names
    occupied,      \* addresses already mapped in the process (environment)
    base,          \* sc->base
    warned,        \* "WARNING: Persistent silo lost to ASLR" was printed
    region,        \* what smp_valid_silo() returns for the mapped region
    steps,         \* calls made so far, in order
    seg1,          \* smp_stuff_len(sc, SMP_SEG1_STUFF)
    spc,           \* smp_stuff_len(sc, SMP_SPC_STUFF)
    objsz,         \* sizeof(struct object)
    min_nseg, max_nseg, aim_nseg,
    min_segl, max_segl, aim_segl,
    free_reserve,
    priv,          \* parent->priv
    fatal,         \* why the process ended, "" while it runs
    divzero        \* an integer division by zero has been evaluated

vars == <<pc, platform, ac, i, mediasize, filelen, sgn, target, mmap_flags,
          occupied, base, warned, region, steps, seg1, spc, objsz,
          min_nseg, max_nseg, aim_nseg, min_segl, max_segl, aim_segl,
          free_reserve, priv, fatal, divzero>>

sizerVars == <<min_nseg, max_nseg, aim_nseg, min_segl, max_segl, aim_segl,
               free_reserve, divzero>>

bootVars == <<platform, ac, i, mediasize, filelen, sgn, target, mmap_flags,
              occupied, base, warned, region, priv>>

inputVars == <<seg1, spc, objsz>>

-----------------------------------------------------------------------------
(* Bounds of the model *)

MaxAc == 3
MaxPages == 2
MaxAddr == 2
MaxReason == 2
MaxSeg1 == 160
MaxSpc == 40
MaxObj == 3

(* Program constants *)

NULL == 0
MAP_FAILED == -1
MIN_NSEG == 10
RESERVE_SEGS == 10
(* sizeof sgn: struct smp_sign is declared in storage_persistent.h; only   *)
(* "the whole record was read" against "fewer bytes" matters here.         *)
SizeofSgn == 32

Platforms == {"linux", "freebsd"}
Addrs == 1..MaxAddr

(* The silo dimensions smp_stuff_len() reports and the record size: small  *)
(* ranges, the 1 MiB segment table every fresh silo gets, a 400 byte data  *)
(* area, and the 100 MiB / 1 MiB / 64 B silo of the sizing scenario.       *)
SegTabCaps == (0..MaxSeg1) \cup {1048576}
DataCaps == (0..MaxSpc) \cup {400, 104857600}
ObjSizes == (1..MaxObj) \cup {64}

(* The silos bring-up is explored with. *)
BootSilos == {<<5, 40>>, <<50, 40>>, <<150, 1>>, <<1048576, 400>>,
              <<1048576, 104857600>>}
BootObjSizes == {2, 64}


-----------------------------------------------------------------------------
(* Arithmetic of smp_metrics *)

(* Integer division by zero is undefined in C.  What the build produces    *)
(* depends on the machine: a trap that kills the process (SIGFPE on x86),  *)
(* a quotient of 0 (AArch64), or some other quotient (all ones on RISC-V;  *)
(* a large value stands for it here).                                      *)
DivZeroQuotients == {0, 16777216}

(* The outcomes of the C expression a / b. *)
DivResults(a, b) ==
    IF b # 0
    THEN {[q |-> a \div b, trap |-> FALSE, ub |-> FALSE]}
    ELSE {[q |-> 0, trap |-> TRUE, ub |-> TRUE]}
         \cup {[q |-> v, trap |-> FALSE, ub |-> TRUE] : v \in DivZeroQuotients}

(* The largest r with r*r <= n, for n < 2^31. *)
RECURSIVE ISqrtIn(_, _, _)
ISqrtIn(n, lo, hi) ==
    IF lo >= hi THEN lo
    ELSE LET mid == (lo + hi + 1) \div 2
         IN  IF mid * mid <= n THEN ISqrtIn(n, mid, hi)
                               ELSE ISqrtIn(n, lo, mid - 1)

ISqrt(n) == ISqrtIn(n, 0, 46340)

AimNsegRounded(mn, mx) ==
    LET r == ISqrt(mn * mx)
    IN  IF mn * mx - r * r > r THEN {r + 1} ELSE {r}

(* (unsigned) exp((log(min_nseg) + log(max_nseg)) * .5): the conversion    *)
(* truncates toward zero.  The double result is within a few ulp of        *)
(* sqrt(mn*mx); that decides the truncation unless mn*mx is a perfect      *)
(* square r*r, where the double may fall just below r and give r - 1       *)
(* (mx = 250 gives 49 with glibc).  log(0) is -inf and exp(-inf) is 0.     *)
AimNseg(mn, mx) ==
    LET r == ISqrt(mn * mx)
    IN  IF r > 0 /\ r * r = mn * mx THEN {r - 1, r} ELSE {r}

LoopCondOffByOne(segl, osz) == segl + 1 < osz

(* while (sc->min_segl < sizeof(struct object)) *)
LoopCond(segl, osz) == segl < osz

FreeReserveEleven(segl) == segl * (RESERVE_SEGS + 1)

(* sc->free_reserve = sc->aim_segl * 10 *)
FreeReserve(segl) == segl * RESERVE_SEGS

-----------------------------------------------------------------------------
(* smp_metrics *)

Trap ==
    /\ pc' = "exit"
    /\ fatal' = "SIGFPE"
    /\ divzero' = TRUE

(* Lines 90-102: min_nseg, max_segl, max_nseg and the first min_segl. *)
MetricsBegin ==
    /\ pc = "metrics"
    /\ steps' = Append(steps, "smp_metrics")
    /\ min_nseg' = MIN_NSEG
    /\ max_segl' = spc \div MIN_NSEG
    /\ max_nseg' = seg1 \div MIN_NSEG
    /\ \E d \in DivResults(spc, seg1 \div MIN_NSEG) :
          IF d.trap
          THEN Trap /\ UNCHANGED min_segl
          ELSE /\ min_segl' = d.q
               /\ divzero' = (divzero \/ d.ub)
               /\ pc' = "loop"
               /\ UNCHANGED fatal
    /\ UNCHANGED <<aim_nseg, aim_segl, free_reserve>>
    /\ UNCHANGED <<bootVars, inputVars>>

(* Lines 104-107: one iteration of the halving loop. *)
MetricsHalve ==
    /\ pc = "loop"
    /\ LoopCond(min_segl, objsz)
    /\ max_nseg' = max_nseg \div 2
    /\ \E d \in DivResults(spc, max_nseg \div 2) :
          IF d.trap
          THEN Trap /\ UNCHANGED min_segl
          ELSE /\ min_segl' = d.q
               /\ divzero' = (divzero \/ d.ub)
               /\ UNCHANGED <<pc, fatal>>
    /\ UNCHANGED <<min_nseg, max_segl, aim_nseg, aim_segl, free_reserve>>
    /\ UNCHANGED <<bootVars, inputVars, steps>>

(* Line 104: the loop condition is false, the loop is left. *)
MetricsLoopExit ==
    /\ pc = "loop"
    /\ ~LoopCond(min_segl, objsz)
    /\ pc' = "aim"
    /\ UNCHANGED <<sizerVars, bootVars, inputVars, steps, fatal>>

(* Lines 121-131: aim_nseg, aim_segl and free_reserve. *)
MetricsAim ==
    /\ pc = "aim"
    /\ \E a \in AimNseg(min_nseg, max_nseg) :
          /\ aim_nseg' = a
          /\ \E d \in DivResults(spc, a) :
                IF d.trap
                THEN Trap /\ UNCHANGED <<aim_segl, free_reserve>>
                ELSE /\ aim_segl' = d.q
                     /\ free_reserve' = FreeReserve(d.q)
                     /\ divzero' = (divzero \/ d.ub)
                     /\ pc' = "publish"
                     /\ UNCHANGED fatal
    /\ UNCHANGED <<min_nseg, max_nseg, min_segl, max_segl>>
    /\ UNCHANGED <<bootVars, inputVars, steps>>

SizerNext == MetricsBegin \/ MetricsHalve \/ MetricsLoopExit \/ MetricsAim

-----------------------------------------------------------------------------
(* smp_mgt_init *)

Count(seq, x) == Cardinality({k \in 1..Len(seq) : seq[k] = x})

(* ARGV_ERR(...), a failed AZ(...) or assert(...): the process ends. *)
Die(why) ==
    /\ pc' = "exit"
    /\ fatal' = why

(* if (ac != 2) ARGV_ERR(...) *)
ArgcOk(n) == n = 2

IsDirectoryNever(r) == FALSE

(* if (i == 2) ARGV_ERR(...) *)
IsDirectory(r) == r = 2

(* Lines 185-187. *)
ArgCheck ==
    /\ pc = "args"
    /\ IF ArgcOk(ac)
       THEN pc' = "getfile" /\ UNCHANGED fatal
       ELSE Die("ARGV_ERR: wrong number of arguments")
    /\ UNCHANGED <<bootVars, inputVars, sizerVars, steps>>

(* Lines 189-191: STV_GetFile opens the file or reports a directory. *)
GetFile ==
    /\ pc = "getfile"
    /\ steps' = Append(steps, "STV_GetFile")
    /\ \E r \in 0..2, len \in 0..MaxPages :
          /\ i' = r
          /\ filelen' = len
          /\ IF IsDirectory(r)
             THEN Die("ARGV_ERR: need filename (not directory)")
             ELSE pc' = "truncate" /\ UNCHANGED fatal
    /\ UNCHANGED <<platform, ac, mediasize, sgn, target, mmap_flags, occupied,
                   base, warned, region, priv>>
    /\ UNCHANGED <<inputVars, sizerVars>>

(* Lines 193-198: STV_FileSize and AZ(ftruncate(sc->fd, sc->mediasize)). *)
Truncate ==
    /\ pc = "truncate"
    /\ steps' = Append(steps, "ftruncate")
    /\ \E ms \in 1..MaxPages, ok \in BOOLEAN :
          /\ mediasize' = ms
          /\ IF ok
             THEN filelen' = ms /\ pc' = "read" /\ UNCHANGED fatal
             ELSE Die("AZ(ftruncate)") /\ UNCHANGED filelen
    /\ UNCHANGED <<platform, ac, i, sgn, target, mmap_flags, occupied,
                   base, warned, region, priv>>
    /\ UNCHANGED <<inputVars, sizerVars>>

(* Lines 203-206: the preferred address, if the file starts with "SILO". *)
TargetOf(s) == IF s.ident = "SILO" THEN s.mapped ELSE NULL

MmapFlagsNoFixed(plat, tgt) ==
    {"MAP_SHARED"}
    \cup (IF plat = "freebsd" THEN {"MAP_NOCORE", "MAP_NOSYNC"} ELSE {})
    \cup (IF tgt = NULL /\ plat = "freebsd" THEN {"MAP_ALIGNED_SUPER"} ELSE {})

(* Lines 208-236: MAP_FIXED (and MAP_EXCL where it exists) with a target;  *)
(* MAP_NOCORE and MAP_NOSYNC are 0 on Linux.                               *)
MmapFlags(plat, tgt) ==
    {"MAP_SHARED"}
    \cup (IF plat = "freebsd" THEN {"MAP_NOCORE", "MAP_NOSYNC"} ELSE {})
    \cup (IF tgt # NULL THEN {"MAP_FIXED"} ELSE {})
    \cup (IF tgt # NULL /\ plat = "freebsd" THEN {"MAP_EXCL"} ELSE {})
    \cup (IF tgt = NULL /\ plat = "freebsd" THEN {"MAP_ALIGNED_SUPER"} ELSE {})

(* Lines 215-231: without a target FreeBSD derives a hint from sbrk(0). *)
Hints(plat, tgt) ==
    IF tgt = NULL /\ plat = "freebsd" THEN Addrs ELSE {tgt}

(* Lines 201-236: read the identity record, choose target and flags. *)
ReadSign ==
    /\ pc = "read"
    /\ steps' = Append(steps, "read")
    /\ \E n \in {-1, 0, SizeofSgn} :
          /\ i' = n
          /\ IF n = SizeofSgn
             THEN \E id \in {"SILO", "none"}, m \in 0..MaxAddr :
                     /\ sgn' = [ident |-> id, mapped |-> m]
                     /\ mmap_flags' = MmapFlags(platform, TargetOf(sgn'))
                     /\ target' \in Hints(platform, TargetOf(sgn'))
                     /\ pc' = "mmap"
                     /\ UNCHANGED fatal
             ELSE /\ Die("assert(i == sizeof sgn)")
                  /\ UNCHANGED <<sgn, target, mmap_flags>>
    /\ UNCHANGED <<platform, ac, mediasize, filelen, occupied, base, warned,
                   region, priv>>
    /\ UNCHANGED <<inputVars, sizerVars>>

(* mmap(2): with MAP_FIXED the mapping is placed exactly at the address    *)
(* or fails; with MAP_EXCL it fails if the range is occupied (without it   *)
(* an occupied range is replaced).  Without MAP_FIXED the address is a     *)
(* hint and the kernel picks any free range.                               *)
MmapResults(tgt, flgs, occ) ==
    {MAP_FAILED} \cup
    IF "MAP_FIXED" \in flgs
    THEN IF "MAP_EXCL" \in flgs /\ tgt \in occ THEN {} ELSE {tgt}
    ELSE Addrs \ occ

IsMapFailedNever(b) == FALSE

(* if (sc->base == MAP_FAILED) ARGV_ERR(...) *)
IsMapFailed(b) == b = MAP_FAILED

(* Lines 237-245. *)
Mmap ==
    /\ pc = "mmap"
    /\ steps' = Append(steps, "mmap")
    /\ \E occ \in SUBSET Addrs :
          /\ occupied' = occ
          /\ \E b \in MmapResults(target, mmap_flags, occ) :
                /\ base' = b
                /\ IF IsMapFailed(b)
                   THEN Die("ARGV_ERR: failed to mmap")
                        /\ UNCHANGED <<warned, region>>
                   ELSE /\ warned' = (target # NULL /\ b # target)
                        /\ region' \in 0..MaxReason
                        /\ pc' = "defsign"
                        /\ UNCHANGED fatal
    /\ UNCHANGED <<platform, ac, i, mediasize, filelen, sgn, target,
                   mmap_flags, priv>>
    /\ UNCHANGED <<inputVars, sizerVars>>

(* Lines 247-248: smp_def_sign(sc, &sc->idn, 0, "SILO"). *)
DefSign ==
    /\ pc = "defsign"
    /\ steps' = Append(steps, "smp_def_sign")
    /\ pc' = "valid"
    /\ UNCHANGED <<bootVars, inputVars, sizerVars, fatal>>

(* smp_valid_silo(sc): 0 for a valid silo, else the reason. *)
SmpValidSilo(reg) == reg

(* smp_newsilo(sc) writes a fresh silo; a broken one would leave a reason. *)
SmpNewsilo == 0..MaxReason

NeedNewsiloAlways(r) == TRUE

(* if (i) { ... smp_newsilo(sc); } *)
NeedNewsilo(r) == r # 0

(* Lines 250-255. *)
Validate ==
    /\ pc = "valid"
    /\ i' = SmpValidSilo(region)
    /\ IF NeedNewsilo(i')
       THEN /\ steps' = steps \o <<"smp_valid_silo", "smp_newsilo">>
            /\ region' \in SmpNewsilo
       ELSE /\ steps' = Append(steps, "smp_valid_silo")
            /\ UNCHANGED region
    /\ pc' = "revalidate"
    /\ UNCHANGED <<platform, ac, mediasize, filelen, sgn, target, mmap_flags,
                   occupied, base, warned, priv>>
    /\ UNCHANGED <<inputVars, sizerVars, fatal>>

(* Line 256: AZ(smp_valid_silo(sc)). *)
Revalidate ==
    /\ pc = "revalidate"
    /\ steps' = Append(steps, "smp_valid_silo")
    /\ IF SmpValidSilo(region) = 0
       THEN pc' = "metrics" /\ UNCHANGED fatal
       ELSE Die("AZ(smp_valid_silo)")
    /\ UNCHANGED <<bootVars, inputVars, sizerVars>>

(* Lines 260-263: parent->priv = sc. *)
Publish ==
    /\ pc = "publish"
    /\ steps' = Append(steps, "publish")
    /\ priv' = "sc"
    /\ pc' = "done"
    /\ UNCHANGED <<platform, ac, i, mediasize, filelen, sgn, target,
                   mmap_flags, occupied, base, warned, region>>
    /\ UNCHANGED <<inputVars, sizerVars, fatal>>

-----------------------------------------------------------------------------
(* Specifications *)

(* Lines 148-183: the softc is allocated zeroed, nothing is published. *)
Alloc ==
    /\ mediasize = 0
    /\ filelen = 0
    /\ base = NULL
    /\ warned = FALSE
    /\ min_nseg = 0 /\ max_nseg = 0 /\ aim_nseg = 0
    /\ min_segl = 0 /\ max_segl = 0 /\ aim_segl = 0
    /\ free_reserve = 0
    /\ priv = "NULL"
    /\ fatal = ""
    /\ divzero = FALSE

Init ==
    /\ Alloc
    /\ pc = "args"
    /\ platform \in Platforms
    /\ ac \in 1..MaxAc
    /\ i = 0
    /\ sgn = [ident |-> "none", mapped |-> 0]
    /\ target = NULL
    /\ mmap_flags = {}
    /\ occupied = {}
    /\ region = 0
    /\ steps = <<>>
    /\ \E silo \in BootSilos : seg1 = silo[1] /\ spc = silo[2]
    /\ objsz \in BootObjSizes

Next ==
    \/ ArgCheck
    \/ GetFile
    \/ Truncate
    \/ ReadSign
    \/ Mmap
    \/ DefSign
    \/ Validate
    \/ Revalidate
    \/ MetricsBegin
    \/ MetricsHalve
    \/ MetricsLoopExit
    \/ MetricsAim
    \/ Publish

Spec == Init /\ [][Next]_vars

(* The state in which smp_mgt_init calls smp_metrics (a one page silo on   *)
(* Linux mapped at its recorded address and found valid), for every silo   *)
(* dimension and record size.                                              *)
SizerInit ==
    /\ pc = "metrics"
    /\ platform = "linux"
    /\ ac = 2
    /\ i = 0
    /\ mediasize = 1
    /\ filelen = 1
    /\ sgn = [ident |-> "SILO", mapped |-> 1]
    /\ target = 1
    /\ mmap_flags = MmapFlags("linux", 1)
    /\ occupied = {}
    /\ base = 1
    /\ warned = FALSE
    /\ region = 0
    /\ steps = <<"STV_GetFile", "ftruncate", "read", "mmap", "smp_def_sign",
                 "smp_valid_silo", "smp_valid_silo">>
    /\ seg1 \in SegTabCaps
    /\ spc \in DataCaps
    /\ objsz \in ObjSizes
    /\ min_nseg = 0 /\ max_nseg = 0 /\ aim_nseg = 0
    /\ min_segl = 0 /\ max_segl = 0 /\ aim_segl = 0
    /\ free_reserve = 0
    /\ priv = "NULL"
    /\ fatal = ""
    /\ divzero = FALSE

SizerSpec == SizerInit /\ [][SizerNext]_vars

(* smp_metrics runs single-threaded to completion: a step that can be      *)
(* taken is taken.                                                         *)
FairSizerSpec == SizerSpec /\ WF_vars(SizerNext)

-----------------------------------------------------------------------------
(* Properties of smp_metrics (SizerSpec) *)

Sized == pc \in {"publish", "done"}

Product == min_nseg * max_nseg

(* C1: after smp_metrics has derived the sizing parameters (here: in runs  *)
(* that never divided by zero), min_nseg <= aim_nseg <= max_nseg and       *)
(* min_segl <= aim_segl <= max_segl.                                       *)
SizingOrdered ==
    (Sized /\ ~divzero) =>
        /\ min_nseg <= aim_nseg /\ aim_nseg <= max_nseg
        /\ min_segl <= aim_segl /\ aim_segl <= max_segl

(* C2: whenever the halving loop has terminated, min_segl is at least the  *)
(* minimal record size.                                                    *)
HalvingPostcondition ==
    (pc = "aim" \/ Sized) => min_segl >= objsz

(* C2 witness: the loop halved max_nseg at least once and was then left.   *)
HalvingWitness ==
    /\ pc = "aim"
    /\ ~divzero
    /\ max_nseg < seg1 \div MIN_NSEG
    /\ min_segl >= objsz

(* C3: the halving loop terminates for every input: once entered (without  *)
(* an earlier division by zero) it is eventually left.                     *)
HalvingTerminates ==
    (pc = "loop" /\ ~divzero) ~> (pc = "aim")

(* C4: for any silo whose derived aim_nseg is greater than 10, the derived *)
(* free_reserve is strictly less than the usable data capacity.            *)
FreeReserveBelowCapacity ==
    (Sized /\ aim_nseg > 10) => free_reserve < spc

(* C4 witness: a sized silo with more than 10 target segments whose        *)
(* reserve is ten full target segments.                                    *)
FreeReserveWitness ==
    /\ Sized
    /\ aim_nseg > 10
    /\ aim_segl > 0
    /\ free_reserve = 10 * aim_segl

(* C5 as claimed: aim_nseg is the geometric mean of min_nseg and max_nseg  *)
(* rounded to the nearest integer, and 1024 for the 100 MiB / 1 MiB / 64 B *)
(* silo.  Stated for the runs that never divided by zero and whose         *)
(* min_nseg * max_nseg is no perfect square, where the value of the        *)
(* floating-point expression does not depend on the last bit.              *)
AimIsRoundedMean ==
    (Sized /\ ~divzero /\ ISqrt(Product) * ISqrt(Product) # Product) =>
        /\ (2 * aim_nseg - 1) * (2 * aim_nseg - 1) <= 4 * Product
        /\ 4 * Product < (2 * aim_nseg + 1) * (2 * aim_nseg + 1)
        /\ (seg1 = 1048576 /\ spc = 104857600 /\ objsz = 64)
               => aim_nseg = 1024

(* C5 as amended: aim_nseg is the geometric mean of min_nseg and max_nseg  *)
(* truncated toward zero, or one less than it when min_nseg * max_nseg is  *)
(* a perfect square; it is 1023 for the 100 MiB / 1 MiB / 64 B silo.       *)
AimIsTruncatedMean ==
    Sized =>
        /\ aim_nseg * aim_nseg <= Product
        /\ Product <= (aim_nseg + 1) * (aim_nseg + 1)
        /\ (seg1 = 1048576 /\ spc = 104857600 /\ objsz = 64)
               => (max_nseg = 104857 /\ aim_nseg = 1023)

(* C5 witness: the 100 MiB / 1 MiB / 64 B silo, sized without halving.     *)
AimScenarioWitness ==
    /\ Sized
    /\ seg1 = 1048576 /\ spc = 104857600 /\ objsz = 64
    /\ min_nseg = 10 /\ max_nseg = 104857
    /\ aim_nseg = 1023

(* C10: every integer division in smp_metrics has a non-zero divisor.      *)
DivisorsNonZero == ~divzero

-----------------------------------------------------------------------------
(* Properties of smp_mgt_init (Spec) *)

Called(x) == Count(steps, x) > 0

IsPrefix(s, t) == Len(s) <= Len(t) /\ s = SubSeq(t, 1, Len(s))

OrderReloaded ==
    <<"STV_GetFile", "ftruncate", "read", "mmap", "smp_def_sign",
      "smp_valid_silo", "smp_valid_silo", "smp_metrics", "publish">>

OrderReinitialized ==
    <<"STV_GetFile", "ftruncate", "read", "mmap", "smp_def_sign",
      "smp_valid_silo", "smp_newsilo", "smp_valid_silo", "smp_metrics",
      "publish">>

(* C6: the validator is called once; smp_newsilo is called iff that first  *)
(* validation returned a reason, at most once, right after it; the         *)
(* validator is then called again and a failure of this final validation   *)
(* is fatal; smp_metrics and the hand-off are reached only if the most     *)
(* recent validation returned valid.                                       *)
ValidateProtocol ==
    LET nv == Count(steps, "smp_valid_silo")
        nn == Count(steps, "smp_newsilo")
    IN  /\ nv <= 2 /\ nn <= 1
        /\ nv >= 1 => (nn = 1 <=> i # 0)
        /\ nn = 1 => \E k \in 1..(Len(steps) - 1) :
                        /\ steps[k] = "smp_valid_silo"
                        /\ steps[k + 1] = "smp_newsilo"
                        /\ Count(SubSeq(steps, 1, k), "smp_valid_silo") = 1
        /\ pc = "revalidate" => nv = 1
        /\ (nv = 2 /\ SmpValidSilo(region) # 0) =>
               (pc = "exit" /\ fatal = "AZ(smp_valid_silo)" /\ priv = "NULL")
        /\ (Called("smp_metrics") \/ pc = "metrics" \/ priv # "NULL") =>
               (nv = 2 /\ SmpValidSilo(region) = 0)

(* C6 witness: the first validation failed, the silo was reinitialized     *)
(* once and validated again, and smp_metrics is about to run.              *)
ReinitializedWitness ==
    /\ pc = "metrics"
    /\ i # 0
    /\ Count(steps, "smp_newsilo") = 1
    /\ Count(steps, "smp_valid_silo") = 2

(* C7: when the path is a directory (STV_GetFile returns 2) or the         *)
(* argument count is not 2, smp_mgt_init fails with a configuration error, *)
(* and neither ftruncate nor mmap is performed and no silo is handed to    *)
(* the parent stevedore.                                                   *)
ConfigErrorNoSideEffects ==
    LET wrongArgs == "ARGV_ERR: wrong number of arguments"
        directory == "ARGV_ERR: need filename (not directory)"
    IN  /\ (ac # 2 /\ pc # "args") => fatal = wrongArgs
        /\ (steps # <<>> /\ steps[Len(steps)] = "STV_GetFile" /\ i = 2)
               => fatal = directory
        /\ fatal \in {wrongArgs, directory} =>
               /\ pc = "exit"
               /\ ~Called("ftruncate") /\ ~Called("mmap")
               /\ base = NULL
               /\ priv = "NULL"

(* C7 witness: STV_GetFile reported a directory and bring-up ended.        *)
DirectoryWitness ==
    /\ steps = <<"STV_GetFile">>
    /\ i = 2
    /\ pc = "exit"

HasPreferredTarget == sgn.ident = "SILO" /\ sgn.mapped # NULL

(* C8 as claimed: when the file holds a "SILO" identity record whose       *)
(* recorded address is already occupied, mmap yields a mapping at another  *)
(* address, the address-drift warning is printed and bring-up does not     *)
(* fail at the mapping.                                                    *)
OccupiedTargetMapsElsewhere ==
    (Called("mmap") /\ HasPreferredTarget /\ sgn.mapped \in occupied) =>
        /\ base # MAP_FAILED
        /\ base # sgn.mapped
        /\ warned
        /\ fatal # "ARGV_ERR: failed to mmap"

(* C8 as amended: when the file holds a "SILO" identity record with a      *)
(* recorded address, the mapping is requested at exactly that address      *)
(* (MAP_FIXED): bring-up either maps there, without the address-drift      *)
(* warning, or fails fatally at mmap; where MAP_EXCL exists an occupied    *)
(* recorded address always fails fatally.                                  *)
PreferredTargetExactOrFatal ==
    (Called("mmap") /\ HasPreferredTarget) =>
        /\ target = sgn.mapped
        /\ \/ base = target /\ ~warned
           \/ /\ base = MAP_FAILED
              /\ fatal = "ARGV_ERR: failed to mmap"
              /\ priv = "NULL"
        /\ ("MAP_EXCL" \in mmap_flags /\ target \in occupied)
               => base = MAP_FAILED

(* C8 witness: the recorded address was occupied, the silo was mapped      *)
(* there all the same and validated.                                       *)
OccupiedTargetWitness ==
    /\ pc = "metrics"
    /\ HasPreferredTarget
    /\ sgn.mapped \in occupied
    /\ base = sgn.mapped

BringUpInv ==
    /\ IsPrefix(steps, OrderReloaded) \/ IsPrefix(steps, OrderReinitialized)
    /\ fatal # "" => (pc = "exit" /\ priv = "NULL")
    /\ priv # "NULL" =>
           /\ steps \in {OrderReloaded, OrderReinitialized}
           /\ filelen = mediasize
           /\ base \notin {NULL, MAP_FAILED}
           /\ SmpValidSilo(region) = 0

(* C9: the bring-up steps occur in the fixed order open, truncate, read    *)
(* identity record, map, define signature, validate (reinitialize,         *)
(* re-validate), derive sizing, publish, each at most once; in a run with  *)
(* a fatal error the handle is never published; and sc->base, once         *)
(* assigned from the mapping, is never reassigned.                         *)
BringUpOrder ==
    /\ []BringUpInv
    /\ [][Called("mmap") => base' = base]_vars

(* C9 witness: a bring-up that reached the hand-off.                       *)
PublishedWitness ==
    /\ pc = "done"
    /\ priv = "sc"
    /\ fatal = ""

=============================================================================
